---- MODULE Spec2Model ----
(***************************************************************************)
(* Model of llm-latency-lens: the concurrent request orchestrator          *)
(* (src/src/orchestrator.rs), the benchmark command that drives it         *)
(* (src/src/cli/commands/benchmark.rs), the Ctrl+C handler                 *)
(* (src/src/main.rs), the metrics collector and aggregator                 *)
(* (src/crates/metrics/src/collector.rs, aggregator.rs), the provider      *)
(* error taxonomy and retry loop (src/crates/providers/src/error.rs,       *)
(* openai.rs, anthropic.rs) and Provider::complete                         *)
(* (src/crates/providers/src/traits.rs).                                   *)
(*                                                                         *)
(* Durations are counted in whole seconds (TLC integers are 32 bit, the    *)
(* source counts nanoseconds in u64).  An Option<T> is a sequence of       *)
(* length 0 (None) or 1 (Some).  A HashMap is a function on its key set.   *)
(* An HDR histogram is the bag of the values recorded into it.             *)
(***************************************************************************)
EXTENDS Integers, Sequences, FiniteSets, Bags, TLC

\* ------------------------------------------------------------------------
\* Bounds of the model
\* ------------------------------------------------------------------------
MaxRequests == 2
MaxConcurrency == 2
MaxRateLimit == 1
MaxTime == 1
MaxThreads == 2
MaxCalls == 3
MaxRetries == 3
MaxTokens == 3
MaxEvents == 4
MaxClock == 2

\* ------------------------------------------------------------------------
\* Option and HashMap helpers
\* ------------------------------------------------------------------------
None == << >>

Some(v) == << v >>

unwrap_or(o, d) == IF o = None THEN d ELSE o[1]

EmptyMap == [k \in {} |-> 0]

MapGet(f, k, d) == IF k \in DOMAIN f THEN f[k] ELSE d

MapPut(f, k, v) == [x \in DOMAIN f \cup {k} |-> IF x = k THEN v ELSE f[x]]

\* ------------------------------------------------------------------------
\* Collector configuration (CollectorConfig::default)
\* ------------------------------------------------------------------------
\* max_value_nanos, in seconds
max_value_secs == 60

\* ceiling of the throughput histogram (tokens/sec * 1000)
throughput_max == 1000000000

DefaultCollectorConfig ==
    [max_value |-> max_value_secs,
     track_per_provider |-> TRUE,
     track_per_model |-> TRUE]

\* ------------------------------------------------------------------------
\* Histogram<u64> created by new_with_max(high, sigfig): auto-resize is
\* off, so recording a value above the trackable range is an error and
\* leaves the histogram unchanged.  (hdrhistogram rounds the trackable
\* range up to a bucket boundary; the inputs of the model are either
\* within `high` or far above that boundary.)
\* ------------------------------------------------------------------------
Histogram_record(h, v, high) ==
    IF v <= high
    THEN [h |-> h (+) SetToBag({v}), ok |-> TRUE]
    ELSE [h |-> h, ok |-> FALSE]

RECURSIVE Histogram_record_all(_, _, _)
Histogram_record_all(h, vs, high) ==
    IF vs = << >>
    THEN [h |-> h, ok |-> TRUE]
    ELSE LET r == Histogram_record(h, Head(vs), high)
         IN IF r.ok THEN Histogram_record_all(r.h, Tail(vs), high)
                    ELSE [h |-> h, ok |-> FALSE]

HistogramSet_new ==
    [ttft |-> EmptyBag, inter_token |-> EmptyBag,
     total_latency |-> EmptyBag, throughput |-> EmptyBag]

\* HistogramSet::record: ttft, total latency, each inter-token latency,
\* scaled throughput, in this order; the first failure returns the error
\* and keeps what was recorded before it.  tokens_per_second is held in
\* thousandths, which is the value (tokens_per_second * 1000.0) as u64.
HistogramSet_record(hs, m, config) ==
    LET r1 == Histogram_record(hs.ttft, m.ttft, config.max_value)
        hs1 == [hs EXCEPT !.ttft = r1.h]
        r2 == Histogram_record(hs1.total_latency, m.total_latency, config.max_value)
        hs2 == [hs1 EXCEPT !.total_latency = r2.h]
        r3 == Histogram_record_all(hs2.inter_token, m.inter_token_latencies, config.max_value)
        hs3 == [hs2 EXCEPT !.inter_token = r3.h]
        r4 == Histogram_record(hs3.throughput, m.tokens_per_second, throughput_max)
        hs4 == [hs3 EXCEPT !.throughput = r4.h]
    IN IF ~r1.ok THEN [hs |-> hs, ok |-> FALSE]
       ELSE IF ~r2.ok THEN [hs |-> hs1, ok |-> FALSE]
       ELSE IF ~r3.ok THEN [hs |-> hs3, ok |-> FALSE]
       ELSE IF ~r4.ok THEN [hs |-> hs3, ok |-> FALSE]
       ELSE [hs |-> hs4, ok |-> TRUE]

\* ------------------------------------------------------------------------
\* CollectorState
\* ------------------------------------------------------------------------
CollectorState_new(config) ==
    [config |-> config,
     global_histograms |-> HistogramSet_new,
     provider_histograms |-> EmptyMap,
     model_histograms |-> EmptyMap,
     request_metrics |-> << >>,
     provider_counts |-> EmptyMap,
     model_counts |-> EmptyMap,
     successful_requests |-> 0,
     failed_requests |-> 0,
     total_input_tokens |-> 0,
     total_output_tokens |-> 0,
     total_thinking_tokens |-> 0,
     total_cost_usd |-> 0]


\* CollectorState_record that stores the raw record of successful requests
\* only
CollectorState_record_SuccessOnly(c, m) ==
    IF m.success
    THEN LET c1 == [c EXCEPT !.successful_requests = @ + 1]
             g == HistogramSet_record(c1.global_histograms, m, c.config)
             c2 == [c1 EXCEPT !.global_histograms = g.hs]
         IN IF ~g.ok THEN [c |-> c2, ok |-> FALSE]
            ELSE [c |-> [c2 EXCEPT !.request_metrics = Append(@, m)], ok |-> TRUE]
    ELSE [c |-> [c EXCEPT !.failed_requests = @ + 1], ok |-> TRUE]

\* CollectorState::record.  The `?` after each histogram record returns
\* the error at once: what was updated before the failure stays updated
\* and the raw record is not stored.
CollectorState_record(c, m) ==
    IF m.success
    THEN LET c1 == [c EXCEPT !.successful_requests = @ + 1]
             g == HistogramSet_record(c1.global_histograms, m, c.config)
             c2 == [c1 EXCEPT !.global_histograms = g.hs]
             p == HistogramSet_record(
                      MapGet(c2.provider_histograms, m.provider, HistogramSet_new),
                      m, c.config)
             c3a == [c2 EXCEPT !.provider_histograms = MapPut(@, m.provider, p.hs)]
             c3b == [c3a EXCEPT !.provider_counts =
                         MapPut(@, m.provider, MapGet(@, m.provider, 0) + 1)]
             c3 == IF c.config.track_per_provider THEN c3b ELSE c2
             q == HistogramSet_record(
                      MapGet(c3.model_histograms, m.model, HistogramSet_new),
                      m, c.config)
             c4a == [c3 EXCEPT !.model_histograms = MapPut(@, m.model, q.hs)]
             c4b == [c4a EXCEPT !.model_counts =
                         MapPut(@, m.model, MapGet(@, m.model, 0) + 1)]
             c4 == IF c.config.track_per_model THEN c4b ELSE c3
             c5 == [c4 EXCEPT
                      !.total_input_tokens = @ + m.input_tokens,
                      !.total_output_tokens = @ + m.output_tokens,
                      !.total_thinking_tokens = @ + unwrap_or(m.thinking_tokens, 0),
                      !.total_cost_usd = @ + unwrap_or(m.cost_usd, 0)]
             c6 == [c5 EXCEPT !.request_metrics = Append(@, m)]
         IN IF ~g.ok THEN [c |-> c2, ok |-> FALSE]
            ELSE IF c.config.track_per_provider /\ ~p.ok THEN [c |-> c3a, ok |-> FALSE]
            ELSE IF c.config.track_per_model /\ ~q.ok THEN [c |-> c4a, ok |-> FALSE]
            ELSE [c |-> c6, ok |-> TRUE]
    ELSE LET c1 == [c EXCEPT !.failed_requests = @ + 1]
         IN [c |-> [c1 EXCEPT !.request_metrics = Append(@, m)], ok |-> TRUE]

\* CollectorState::len
CollectorState_len(c) == Len(c.request_metrics)

\* MetricsCollector::get_state_snapshot: a copy of the state taken under
\* the lock (the per-provider and per-model histograms are not copied).
get_state_snapshot(c) ==
    [request_metrics |-> c.request_metrics,
     provider_counts |-> c.provider_counts,
     model_counts |-> c.model_counts,
     successful_requests |-> c.successful_requests,
     failed_requests |-> c.failed_requests,
     total_input_tokens |-> c.total_input_tokens,
     total_output_tokens |-> c.total_output_tokens,
     total_thinking_tokens |-> c.total_thinking_tokens,
     total_cost_usd |-> c.total_cost_usd,
     global_histograms |-> c.global_histograms]

\* MetricsAggregator::aggregate: NoMetrics on an empty collector, otherwise
\* the roll-up (the counts; the distributions are functions of the global
\* histograms, kept here as the histograms themselves).
MetricsAggregator_aggregate(c) ==
    LET snapshot == get_state_snapshot(c)
    IN IF snapshot.request_metrics = << >>
       THEN [ok |-> FALSE, error |-> "NoMetrics"]
       ELSE [ok |-> TRUE,
             total_requests |-> Len(snapshot.request_metrics),
             successful_requests |-> snapshot.successful_requests,
             failed_requests |-> snapshot.failed_requests,
             global_histograms |-> snapshot.global_histograms,
             total_input_tokens |-> snapshot.total_input_tokens,
             total_output_tokens |-> snapshot.total_output_tokens,
             provider_breakdown |-> snapshot.provider_counts,
             model_breakdown |-> snapshot.model_counts]

\* CollectorState_clear that leaves the per-provider histograms in place
CollectorState_clear_KeepProviderHistograms(c) ==
    [c EXCEPT
        !.request_metrics = << >>,
        !.provider_counts = EmptyMap,
        !.model_counts = EmptyMap,
        !.successful_requests = 0,
        !.failed_requests = 0,
        !.total_input_tokens = 0,
        !.total_output_tokens = 0,
        !.total_thinking_tokens = 0,
        !.total_cost_usd = 0,
        !.global_histograms = HistogramSet_new,
        !.model_histograms = EmptyMap]

\* CollectorState::clear: the vector, the counters and the histograms are
\* reset; the configuration stays
CollectorState_clear(c) ==
    [c EXCEPT
        !.request_metrics = << >>,
        !.provider_counts = EmptyMap,
        !.model_counts = EmptyMap,
        !.successful_requests = 0,
        !.failed_requests = 0,
        !.total_input_tokens = 0,
        !.total_output_tokens = 0,
        !.total_thinking_tokens = 0,
        !.total_cost_usd = 0,
        !.global_histograms = HistogramSet_new,
        !.provider_histograms = EmptyMap,
        !.model_histograms = EmptyMap]

\* number of entries of the slice whose success flag is `flag`
RECURSIVE CountSuccess(_, _)
CountSuccess(metrics, flag) ==
    IF metrics = << >> THEN 0
    ELSE (IF Head(metrics).success = flag THEN 1 ELSE 0)
             + CountSuccess(Tail(metrics), flag)

\* metrics.into_iter().filter(|m| m.field == value).collect()
RECURSIVE Filter(_, _, _)
Filter(metrics, field, value) ==
    IF metrics = << >> THEN << >>
    ELSE (IF Head(metrics)[field] = value THEN << Head(metrics) >> ELSE << >>)
             \o Filter(Tail(metrics), field, value)

\* the loop of aggregate_from_metrics over one key of the metrics: every
\* entry, successful or failed, adds one to the count of its key
RECURSIVE CountByKey(_, _)
CountByKey(metrics, field) ==
    IF metrics = << >> THEN EmptyMap
    ELSE LET rest == CountByKey(Tail(metrics), field)
             k == Head(metrics)[field]
         IN MapPut(rest, k, MapGet(rest, k, 0) + 1)

\* Histogram::new(3) resizes itself: every value the model records fits
AutoResize == 2147483647

\* the four histograms aggregate_from_metrics fills from the successful
\* entries of the slice
RECURSIVE from_metrics_histograms(_)
from_metrics_histograms(metrics) ==
    IF metrics = << >> THEN HistogramSet_new
    ELSE LET hs == from_metrics_histograms(SubSeq(metrics, 1, Len(metrics) - 1))
             m == metrics[Len(metrics)]
         IN IF m.success
            THEN [ttft |-> Histogram_record(hs.ttft, m.ttft, AutoResize).h,
                  total_latency |->
                      Histogram_record(hs.total_latency, m.total_latency, AutoResize).h,
                  inter_token |->
                      Histogram_record_all(hs.inter_token, m.inter_token_latencies,
                                           AutoResize).h,
                  throughput |->
                      Histogram_record(hs.throughput, m.tokens_per_second, AutoResize).h]
            ELSE hs

\* MetricsAggregator::aggregate_from_metrics: the roll-up computed from a
\* slice of raw records (its histograms are Histogram::new(3), which
\* resize, so recording into them does not fail)
aggregate_from_metrics(metrics) ==
    IF metrics = << >>
    THEN [ok |-> FALSE, error |-> "NoMetrics"]
    ELSE [ok |-> TRUE,
          total_requests |-> Len(metrics),
          successful_requests |-> CountSuccess(metrics, TRUE),
          failed_requests |-> CountSuccess(metrics, FALSE),
          global_histograms |-> from_metrics_histograms(metrics),
          provider_breakdown |-> CountByKey(metrics, "provider"),
          model_breakdown |-> CountByKey(metrics, "model")]

\* MetricsAggregator::aggregate_by_provider
aggregate_by_provider(c, provider) ==
    aggregate_from_metrics(Filter(c.request_metrics, "provider", provider))

\* MetricsAggregator::aggregate_by_model
aggregate_by_model(c, model) ==
    aggregate_from_metrics(Filter(c.request_metrics, "model", model))

\* ------------------------------------------------------------------------
\* State
\* ------------------------------------------------------------------------
VARIABLES
    cfg,               \* OrchestratorConfig of the run and the provider of its adapter
    pc,                \* position of benchmark::run / Orchestrator::execute
    next_i,            \* index of the spawn loop of execute
    st,                \* position of each request task
    res,               \* outcome of each request task
    lat,               \* total latency measured by execute_single_request
    rate_permit,       \* the task has passed limiter.until_ready()
    notified,          \* tasks whose Notified future was woken by notify_waiters
    permits,           \* free permits of the semaphore
    waiters,           \* FIFO wait queue of the semaphore
    tokens,            \* cells available in the rate limiter
    signalled,         \* Ctrl+C was received
    since_signal,      \* seconds the streams in flight at the signal have had since it
    inflight_at_signal,\* tasks still inside the stream they were in when it was received
    summary,           \* ExecutionSummary being built by execute
    aggregated,        \* result of MetricsAggregator::aggregate in run
    coll,              \* state of the MetricsCollector
    mutex,             \* owner of the collector's Mutex (0 = unlocked)
    thr_pc,            \* position of each recording thread
    thr_calls,         \* record calls each thread has returned from
    thr_arg,           \* RequestMetrics the thread is recording
    record_errs,       \* record calls that returned Err
    max_retries,       \* max_retries of the provider
    attempts,          \* `attempts` of execute_with_retries
    last_error,        \* `last_error` of execute_with_retries
    outcomes,          \* results of the calls of operation(), in order
    waits,             \* seconds of each tokio::time::sleep, in order
    rt_pc,             \* position of execute_with_retries
    rt_result,         \* what execute_with_retries returned
    cp_pc,             \* position of Provider::complete
    sends,             \* times the request of complete was issued
    token_events,      \* token events complete has collected
    cp_result,         \* what complete returned
    stream_pc,         \* state of the token stream of a provider
    received,          \* events the event source has delivered, in order
    items,             \* items the token stream has yielded, in order
    sequence,          \* `sequence` captured by the closure of the stream
    last_token_time,   \* `last_token_time` captured by the closure
    clock,             \* reading of the timing engine's clock
    request_start      \* reading of the clock when the request started

orchVars == << cfg, pc, next_i, st, res, lat, rate_permit, notified, permits, waiters, tokens, signalled, since_signal,
               inflight_at_signal, summary, aggregated >>

thrVars == << mutex, thr_pc, thr_calls, thr_arg, record_errs >>

retryVars == << max_retries, attempts, last_error, outcomes, waits, rt_pc, rt_result >>

completeVars == << cp_pc, sends, token_events, cp_result >>

streamVars == << stream_pc, received, items, sequence, last_token_time, clock, request_start >>

provVars == << retryVars, completeVars, streamVars >>

vars == << orchVars, coll, thrVars, provVars >>

Tasks == 1..MaxRequests

Threads == 1..MaxThreads

\* ------------------------------------------------------------------------
\* Inputs
\* ------------------------------------------------------------------------
\* shutdown_timeout of the OrchestratorConfig built by benchmark::run, in
\* seconds
shutdown_timeout == 30

\* OrchestratorConfig values the runs are checked for
\* providers for which create_provider returns an adapter whose stream can
\* deliver a completion
AdapterProviders == {"openai", "anthropic"}

Configs ==
    [concurrency : 1..MaxConcurrency,
     total_requests : 1..MaxRequests,
     rate_limit : 0..MaxRateLimit,
     provider : AdapterProviders]

\* What provider.complete can do: return a completion after
\* total_latency seconds, return an error, or panic.
ProviderOutcomes ==
    { [kind |-> "ok", total_latency |-> 2],
      [kind |-> "ok", total_latency |-> 120],
      [kind |-> "err", total_latency |-> 0],
      [kind |-> "panic", total_latency |-> 0] }

\* tokens_per_second is kept in thousandths, so that the scaled value
\* recorded into the throughput histogram is the field itself
FixedPoint(num, den) == (num * 1000) \div den

\* execute_single_request on a completion of two token events: the
\* RequestMetrics it returns.  The provider field is the constant OpenAI.
execute_single_request(i, total_latency) ==
    [request_id |-> i,
     provider |-> "openai",
     model |-> "model-a",
     ttft |-> 1,
     total_latency |-> total_latency,
     inter_token_latencies |-> << 1 >>,
     input_tokens |-> 0,
     output_tokens |-> 2,
     thinking_tokens |-> None,
     tokens_per_second |-> IF total_latency > 0 THEN FixedPoint(2, total_latency) ELSE 0,
     cost_usd |-> None,
     success |-> TRUE,
     error |-> None]

\* ------------------------------------------------------------------------
\* Initial state: the process has installed the Ctrl+C handler and
\* benchmark::run has created the orchestrator and an empty collector.
\* ------------------------------------------------------------------------
ThreadsAbsent ==
    /\ mutex = 0
    /\ thr_pc = [t \in Threads |-> "done"]
    /\ thr_calls = [t \in Threads |-> 0]
    /\ thr_arg = [t \in Threads |-> None]
    /\ record_errs = 0

StreamIdle ==
    /\ stream_pc = "ended"
    /\ received = << >>
    /\ items = << >>
    /\ sequence = 0
    /\ last_token_time = None
    /\ clock = 0
    /\ request_start = 0

ProviderIdle ==
    /\ max_retries = 0
    /\ attempts = 0
    /\ last_error = None
    /\ outcomes = << >>
    /\ waits = << >>
    /\ rt_pc = "done"
    /\ rt_result = None
    /\ cp_pc = "done"
    /\ sends = 0
    /\ token_events = 0
    /\ cp_result = None
    /\ StreamIdle

OrchestratorIdle ==
    /\ pc = "start"
    /\ next_i = 1
    /\ st = [i \in Tasks |-> "unspawned"]
    /\ res = [i \in Tasks |-> "none"]
    /\ lat = [i \in Tasks |-> 0]
    /\ rate_permit = [i \in Tasks |-> FALSE]
    /\ notified = {}
    /\ permits = 0
    /\ waiters = << >>
    /\ tokens = 0
    /\ signalled = FALSE
    /\ since_signal = 0
    /\ inflight_at_signal = {}
    /\ summary = [total_requests |-> 0, successful_requests |-> 0, failed_requests |-> 0]
    /\ aggregated = None

\* benchmark::run was invoked with --provider openai
Init ==
    /\ cfg \in {c \in Configs : c.provider = "openai"}
    /\ OrchestratorIdle
    /\ coll = CollectorState_new(DefaultCollectorConfig)
    /\ ThreadsAbsent
    /\ ProviderIdle

\* ------------------------------------------------------------------------
\* tokio::sync::Semaphore: permits released while tasks are queued go to
\* the head of the queue, otherwise back to the counter.
\* ------------------------------------------------------------------------
\* the semaphore and task positions after one permit is released
add_permits(p, w, s) ==
    IF w = << >>
    THEN [permits |-> p + 1, waiters |-> w, st |-> s]
    ELSE [permits |-> p, waiters |-> Tail(w),
          st |-> [s EXCEPT ![Head(w)] = "granted"]]

\* the queue without task i (Drop of a queued Acquire future)
RECURSIVE remove_waiter(_, _)
remove_waiter(w, i) ==
    IF w = << >> THEN << >>
    ELSE IF Head(w) = i THEN Tail(w)
    ELSE << Head(w) >> \o remove_waiter(Tail(w), i)

\* task positions at which the select! of the task has created its
\* Notified future and the task is suspended or about to be polled
Registered == {"rate", "acquire", "queued", "granted", "stream"}

\* task positions at which the task holds a concurrency permit
HoldsPermit == {"granted", "stream", "record"}

Running == pc \in {"spawn", "join"}


\* ------------------------------------------------------------------------
\* Orchestrator::execute
\* ------------------------------------------------------------------------
\* ExecuteBegin that leaves summary.total_requests at its default
ExecuteBegin_NoTotal ==
    /\ pc = "start"
    /\ pc' = "spawn"
    /\ permits' = cfg.concurrency
    /\ tokens' = cfg.rate_limit
    /\ summary' = [total_requests |-> 0,
                   successful_requests |-> 0, failed_requests |-> 0]
    /\ next_i' = 1
    /\ UNCHANGED << cfg, st, res, lat, rate_permit, notified, waiters,
                    signalled, since_signal, inflight_at_signal, aggregated,
                    coll, thrVars, provVars >>

\* execute up to the spawn loop: semaphore, rate limiter, summary
ExecuteBegin ==
    /\ pc = "start"
    /\ pc' = "spawn"
    /\ permits' = cfg.concurrency
    /\ tokens' = cfg.rate_limit
    /\ summary' = [total_requests |-> cfg.total_requests,
                   successful_requests |-> 0, failed_requests |-> 0]
    /\ next_i' = 1
    /\ UNCHANGED << cfg, st, res, lat, rate_permit, notified, waiters,
                    signalled, since_signal, inflight_at_signal, aggregated,
                    coll, thrVars, provVars >>

\* one iteration of the spawn loop: tokio::spawn of task next_i
Spawn ==
    /\ pc = "spawn"
    /\ next_i <= cfg.total_requests
    /\ st' = [st EXCEPT ![next_i] = "spawned"]
    /\ next_i' = next_i + 1
    /\ pc' = IF next_i = cfg.total_requests THEN "join" ELSE "spawn"
    /\ UNCHANGED << cfg, res, lat, rate_permit, notified, permits, waiters,
                    tokens, signalled, since_signal, inflight_at_signal,
                    summary, aggregated, coll, thrVars, provVars >>


\* FirstPoll that goes to the semaphore without asking the rate limiter
FirstPoll_SkipLimiter(i) ==
    /\ Running
    /\ st[i] = "spawned"
    /\ st' = [st EXCEPT ![i] = "acquire"]
    /\ UNCHANGED << cfg, pc, next_i, res, lat, rate_permit, notified, permits,
                    waiters, tokens, signalled, since_signal,
                    inflight_at_signal, summary, aggregated, coll, thrVars, provVars >>

\* first poll of a task: select! creates shutdown_signal.notified() and
\* the request future, which begins with the rate limiter if there is one
FirstPoll(i) ==
    /\ Running
    /\ st[i] = "spawned"
    /\ st' = [st EXCEPT ![i] = IF cfg.rate_limit > 0 THEN "rate" ELSE "acquire"]
    /\ UNCHANGED << cfg, pc, next_i, res, lat, rate_permit, notified, permits,
                    waiters, tokens, signalled, since_signal,
                    inflight_at_signal, summary, aggregated, coll, thrVars, provVars >>

\* limiter.until_ready() returns: one cell of the bucket is taken
RateAcquire(i) ==
    /\ Running
    /\ st[i] = "rate"
    /\ tokens > 0
    /\ tokens' = tokens - 1
    /\ rate_permit' = [rate_permit EXCEPT ![i] = TRUE]
    /\ st' = [st EXCEPT ![i] = "acquire"]
    /\ UNCHANGED << cfg, pc, next_i, res, lat, notified, permits, waiters,
                    signalled, since_signal, inflight_at_signal, summary,
                    aggregated, coll, thrVars, provVars >>


\* SemPoll without the semaphore: the request starts at once
SemPoll_NoLimit(i) ==
    /\ Running
    /\ st[i] = "acquire"
    /\ st' = [st EXCEPT ![i] = "stream"]
    /\ UNCHANGED << cfg, pc, next_i, res, lat, rate_permit, notified, permits,
                    waiters, tokens, signalled, since_signal,
                    inflight_at_signal, summary, aggregated, coll, thrVars, provVars >>

\* first poll of semaphore.acquire(): take a free permit and start
\* execute_single_request, or join the wait queue
SemPoll(i) ==
    /\ Running
    /\ st[i] = "acquire"
    /\ IF permits > 0
       THEN /\ permits' = permits - 1
            /\ st' = [st EXCEPT ![i] = "stream"]
            /\ UNCHANGED waiters
       ELSE /\ waiters' = Append(waiters, i)
            /\ st' = [st EXCEPT ![i] = "queued"]
            /\ UNCHANGED permits
    /\ UNCHANGED << cfg, pc, next_i, res, lat, rate_permit, notified, tokens,
                    signalled, since_signal, inflight_at_signal, summary,
                    aggregated, coll, thrVars, provVars >>

\* a task that was handed a permit is polled and starts
\* execute_single_request
SemResume(i) ==
    /\ Running
    /\ st[i] = "granted"
    /\ st' = [st EXCEPT ![i] = "stream"]
    /\ UNCHANGED << cfg, pc, next_i, res, lat, rate_permit, notified, permits,
                    waiters, tokens, signalled, since_signal,
                    inflight_at_signal, summary, aggregated, coll, thrVars, provVars >>

\* StreamEnd that keeps the permit when the request fails
StreamEnd_KeepPermitOnError(i, o) ==
    /\ Running
    /\ st[i] = "stream"
    /\ res' = [res EXCEPT ![i] = o.kind]
    /\ lat' = [lat EXCEPT ![i] = o.total_latency]
    /\ inflight_at_signal' = inflight_at_signal \ {i}
    /\ st' = [st EXCEPT ![i] = IF o.kind = "ok" THEN "record" ELSE "finished"]
    /\ UNCHANGED << permits, waiters >>
    /\ UNCHANGED << cfg, pc, next_i, rate_permit, notified, tokens, signalled,
                    since_signal, summary, aggregated, coll, thrVars, provVars >>

\* provider.complete inside execute_single_request ends with outcome o.
\* A panic unwinds the task: the permit is dropped and the JoinHandle
\* yields a JoinError.  An error is returned by execute_single_request
\* with `?`: nothing is recorded (`if let Ok`), the progress bar is
\* advanced, the permit is dropped and the task returns the error.  After
\* a completion the task goes on to record the metrics.
StreamEnd(i, o) ==
    /\ Running
    /\ st[i] = "stream"
    /\ res' = [res EXCEPT ![i] = o.kind]
    /\ lat' = [lat EXCEPT ![i] = o.total_latency]
    /\ inflight_at_signal' = inflight_at_signal \ {i}
    /\ IF o.kind = "ok"
       THEN /\ st' = [st EXCEPT ![i] = "record"]
            /\ UNCHANGED << permits, waiters >>
       ELSE LET r == add_permits(permits, waiters, [st EXCEPT ![i] = "finished"])
            IN /\ permits' = r.permits
               /\ waiters' = r.waiters
               /\ st' = r.st
    /\ UNCHANGED << cfg, pc, next_i, rate_permit, notified, tokens, signalled,
                    since_signal, summary, aggregated, coll, thrVars, provVars >>

\* rest of the task after execute_single_request returned Ok(metrics):
\* the metrics are recorded (an error of record is only logged), the
\* progress bar is advanced, the permit is dropped and the task returns
\* the result
RecordMetrics(i) ==
    /\ Running
    /\ st[i] = "record"
    /\ coll' = CollectorState_record(coll, execute_single_request(i, lat[i])).c
    /\ LET r == add_permits(permits, waiters, [st EXCEPT ![i] = "finished"])
       IN /\ permits' = r.permits
          /\ waiters' = r.waiters
          /\ st' = r.st
    /\ UNCHANGED << cfg, pc, next_i, res, lat, rate_permit, notified, tokens,
                    signalled, since_signal, inflight_at_signal, summary,
                    aggregated, thrVars, provVars >>

\* select! takes the shutdown branch: the request future is dropped where
\* it is suspended and the task returns Err("Cancelled")
Cancel(i) ==
    /\ Running
    /\ i \in notified
    /\ st[i] \in Registered
    /\ res' = [res EXCEPT ![i] = "cancelled"]
    /\ inflight_at_signal' = inflight_at_signal \ {i}
    /\ IF st[i] \in HoldsPermit
       THEN LET r == add_permits(permits, waiters, [st EXCEPT ![i] = "finished"])
            IN /\ permits' = r.permits
               /\ waiters' = r.waiters
               /\ st' = r.st
       ELSE /\ st' = [st EXCEPT ![i] = "finished"]
            /\ waiters' = remove_waiter(waiters, i)
            /\ UNCHANGED permits
    /\ UNCHANGED << cfg, pc, next_i, lat, rate_permit, notified, tokens,
                    signalled, since_signal, summary, aggregated, coll, thrVars, provVars >>

\* setup_shutdown_handler: Ctrl+C arrives while execute runs and
\* notify_waiters() wakes the Notified futures that exist at this moment;
\* no permit is stored for futures created later.  (A signal that arrives
\* before execute is called finds no Notified future, like one that
\* arrives before the first task is spawned.)
Signal ==
    /\ ~signalled
    /\ Running
    /\ signalled' = TRUE
    /\ notified' = {i \in Tasks : st[i] \in Registered}
    /\ since_signal' = 0
    /\ inflight_at_signal' = {i \in Tasks : st[i] = "stream"}
    /\ UNCHANGED << cfg, pc, next_i, st, res, lat, rate_permit, permits,
                    waiters, tokens, summary, aggregated, coll, thrVars, provVars >>

\* one second passes: the rate limiter replenishes rate_limit cells per
\* second up to its burst of rate_limit, and the streams that were in
\* flight at the signal have had one more second
Tick ==
    /\ Running
    /\ inflight_at_signal # {} => since_signal < MaxTime
    /\ since_signal' = IF inflight_at_signal # {} THEN since_signal + 1
                                                 ELSE since_signal
    /\ tokens' = cfg.rate_limit
    /\ UNCHANGED << cfg, pc, next_i, st, res, lat, rate_permit, notified,
                    permits, waiters, signalled, inflight_at_signal, summary,
                    aggregated, coll, thrVars, provVars >>


\* Join that does not count a JoinError
Join_PanicUncounted(i) ==
    /\ pc = "join"
    /\ st[i] = "finished"
    /\ st' = [st EXCEPT ![i] = "joined"]
    /\ summary' = IF res[i] = "ok"
                  THEN [summary EXCEPT !.successful_requests = @ + 1]
                  ELSE IF res[i] = "panic" THEN summary
                  ELSE [summary EXCEPT !.failed_requests = @ + 1]
    /\ UNCHANGED << cfg, pc, next_i, res, lat, rate_permit, notified, permits,
                    waiters, tokens, signalled, since_signal,
                    inflight_at_signal, aggregated, coll, thrVars, provVars >>

\* Join that propagates the first failed result out of execute
Join_FailFast(i) ==
    /\ pc = "join"
    /\ st[i] = "finished"
    /\ st' = [st EXCEPT ![i] = "joined"]
    /\ IF res[i] = "ok"
       THEN /\ summary' = [summary EXCEPT !.successful_requests = @ + 1]
            /\ UNCHANGED pc
       ELSE /\ pc' = "run_err"
            /\ UNCHANGED summary
    /\ UNCHANGED << cfg, next_i, res, lat, rate_permit, notified, permits,
                    waiters, tokens, signalled, since_signal,
                    inflight_at_signal, aggregated, coll, thrVars, provVars >>

\* tasks.next() yields the JoinHandle result of a finished task
Join(i) ==
    /\ pc = "join"
    /\ st[i] = "finished"
    /\ st' = [st EXCEPT ![i] = "joined"]
    /\ summary' = IF res[i] = "ok"
                  THEN [summary EXCEPT !.successful_requests = @ + 1]
                  ELSE [summary EXCEPT !.failed_requests = @ + 1]
    /\ UNCHANGED << cfg, pc, next_i, res, lat, rate_permit, notified, permits,
                    waiters, tokens, signalled, since_signal,
                    inflight_at_signal, aggregated, coll, thrVars, provVars >>

\* tasks.next() yields None: execute returns Ok(summary) to run
ExecuteReturn ==
    /\ pc = "join"
    /\ \A i \in 1..cfg.total_requests : st[i] = "joined"
    /\ pc' = "aggregate"
    /\ UNCHANGED << cfg, next_i, st, res, lat, rate_permit, notified, permits,
                    waiters, tokens, signalled, since_signal,
                    inflight_at_signal, summary, aggregated, coll, thrVars, provVars >>

\* benchmark::run after execute: MetricsAggregator::aggregate(&collector)
\* with `?`, so NoMetrics ends run with an error
Aggregate ==
    /\ pc = "aggregate"
    /\ LET a == MetricsAggregator_aggregate(coll)
       IN /\ aggregated' = Some(a)
          /\ pc' = IF a.ok THEN "run_ok" ELSE "run_err"
    /\ UNCHANGED << cfg, next_i, st, res, lat, rate_permit, notified, permits,
                    waiters, tokens, signalled, since_signal,
                    inflight_at_signal, summary, coll, thrVars, provVars >>

Next ==
    \/ ExecuteBegin
    \/ Spawn
    \/ \E i \in Tasks : FirstPoll(i)
    \/ \E i \in Tasks : RateAcquire(i)
    \/ \E i \in Tasks : SemPoll(i)
    \/ \E i \in Tasks : SemResume(i)
    \/ \E i \in Tasks : \E o \in ProviderOutcomes : StreamEnd(i, o)
    \/ \E i \in Tasks : RecordMetrics(i)
    \/ \E i \in Tasks : Cancel(i)
    \/ Signal
    \/ Tick
    \/ \E i \in Tasks : Join(i)
    \/ ExecuteReturn
    \/ Aggregate

Spec == Init /\ [][Next]_vars

\* the variables that say where execute and its tasks are and what the
\* rate limiter holds; every step of execute or of a task changes them
sched == << pc, st, tokens, since_signal >>

\* RecordMetrics as far as sched is concerned: the task leaves "record"
\* and its permit goes to the head of the queue or back to the counter
Recorded(i) ==
    /\ Running
    /\ st[i] = "record"
    /\ st' = add_permits(permits, waiters, [st EXCEPT ![i] = "finished"]).st
    /\ UNCHANGED << pc, tokens, since_signal >>

\* a step of execute or of one of its tasks, or the passing of a second
Progress ==
    \/ ExecuteBegin
    \/ Spawn
    \/ \E i \in Tasks : FirstPoll(i)
    \/ \E i \in Tasks : RateAcquire(i)
    \/ \E i \in Tasks : SemPoll(i)
    \/ \E i \in Tasks : SemResume(i)
    \/ \E i \in Tasks : \E o \in ProviderOutcomes : StreamEnd(i, o)
    \/ \E i \in Tasks : Recorded(i)
    \/ \E i \in Tasks : Cancel(i)
    \/ Tick
    \/ \E i \in Tasks : Join(i)
    \/ ExecuteReturn

\* Scheduling of execute: while the task running execute or a spawned
\* task can take a step, a pending call of provider.complete can return or
\* the rate limiter can replenish, the tokio runtime lets one of them
\* happen.  Ctrl+C is up to the user and is not required to happen.
Fairness == WF_sched(Progress)

\* the runs followed to their end: every combination of concurrency and
\* total_requests without a rate limit, and the rate-limited runs of fewer
\* than MaxRequests requests
InitLive ==
    /\ Init
    /\ cfg.rate_limit = 0 \/ cfg.total_requests < MaxRequests

SpecLive == InitLive /\ [][Next]_vars /\ Fairness

\* benchmark::run invoked with any provider that has an adapter
InitAdapter ==
    /\ cfg \in Configs
    /\ OrchestratorIdle
    /\ coll = CollectorState_new(DefaultCollectorConfig)
    /\ ThreadsAbsent
    /\ ProviderIdle

SpecAdapter == InitAdapter /\ [][Next]_vars

\* ------------------------------------------------------------------------
\* MetricsCollector shared by recording threads (Arc<Mutex<CollectorState>>)
\* ------------------------------------------------------------------------
\* RequestMetrics with the fields the collector reads
RequestMetrics(p, l, ok) ==
    [request_id |-> 0,
     provider |-> p,
     model |-> "model-a",
     ttft |-> IF ok THEN 1 ELSE 0,
     total_latency |-> l,
     inter_token_latencies |-> IF ok THEN << 1 >> ELSE << >>,
     input_tokens |-> IF ok THEN 1 ELSE 0,
     output_tokens |-> IF ok THEN 2 ELSE 0,
     thinking_tokens |-> None,
     tokens_per_second |-> IF l > 0 THEN FixedPoint(2, l) ELSE 0,
     cost_usd |-> IF ok THEN Some(1) ELSE None,
     success |-> ok,
     error |-> IF ok THEN None ELSE Some("error")]

\* RequestMetrics values the threads record: two providers, successful and
\* failed, a total latency inside and outside the histogram range
MetricsInputs ==
    { RequestMetrics("openai", 2, TRUE),
      RequestMetrics("openai", 120, TRUE),
      RequestMetrics("anthropic", 2, TRUE),
      RequestMetrics("anthropic", 0, FALSE) }

CollectorConfigs ==
    [max_value : {max_value_secs},
     track_per_provider : BOOLEAN,
     track_per_model : BOOLEAN]

InitCollector ==
    /\ cfg = [concurrency |-> 1, total_requests |-> 1, rate_limit |-> 0,
              provider |-> "openai"]
    /\ OrchestratorIdle
    /\ coll \in {CollectorState_new(c) : c \in CollectorConfigs}
    /\ mutex = 0
    /\ thr_pc = [t \in Threads |-> "idle"]
    /\ thr_calls = [t \in Threads |-> 0]
    /\ thr_arg = [t \in Threads |-> None]
    /\ record_errs = 0
    /\ ProviderIdle

\* record calls that have returned, over all threads
RECURSIVE SumCalls(_)
SumCalls(n) == IF n = 0 THEN 0 ELSE thr_calls[n] + SumCalls(n - 1)

TotalCalls == SumCalls(MaxThreads)

\* MetricsCollector::record(m) by thread t up to the lock: the thread
\* blocks until the mutex is free and takes it
ThreadLock(t, m) ==
    /\ thr_pc[t] = "idle"
    /\ TotalCalls < MaxCalls
    /\ mutex = 0
    /\ mutex' = t
    /\ thr_arg' = [thr_arg EXCEPT ![t] = Some(m)]
    /\ thr_pc' = [thr_pc EXCEPT ![t] = "locked"]
    /\ UNCHANGED << orchVars, provVars, coll, thr_calls, record_errs >>

\* ThreadRecord that puts an accepted record at the front of the vector
ThreadRecord_Prepend(t) ==
    /\ thr_pc[t] = "locked"
    /\ mutex = t
    /\ LET r == CollectorState_record(coll, thr_arg[t][1])
       IN /\ coll' = IF r.ok
                     THEN [r.c EXCEPT !.request_metrics =
                               << thr_arg[t][1] >> \o coll.request_metrics]
                     ELSE r.c
          /\ record_errs' = IF r.ok THEN record_errs ELSE record_errs + 1
    /\ mutex' = 0
    /\ thr_calls' = [thr_calls EXCEPT ![t] = @ + 1]
    /\ thr_arg' = [thr_arg EXCEPT ![t] = None]
    /\ thr_pc' = [thr_pc EXCEPT ![t] = "idle"]
    /\ UNCHANGED << orchVars, provVars >>

\* ThreadRecord that counts the provider of a failed request as well
ThreadRecord_CountFailedProvider(t) ==
    /\ thr_pc[t] = "locked"
    /\ mutex = t
    /\ LET m == thr_arg[t][1]
           r == CollectorState_record(coll, m)
       IN /\ coll' = IF m.success
                     THEN r.c
                     ELSE [r.c EXCEPT !.provider_counts =
                               MapPut(@, m.provider, MapGet(@, m.provider, 0) + 1)]
          /\ record_errs' = IF r.ok THEN record_errs ELSE record_errs + 1
    /\ mutex' = 0
    /\ thr_calls' = [thr_calls EXCEPT ![t] = @ + 1]
    /\ thr_arg' = [thr_arg EXCEPT ![t] = None]
    /\ thr_pc' = [thr_pc EXCEPT ![t] = "idle"]
    /\ UNCHANGED << orchVars, provVars >>

\* MetricsCollector::record(m) under the lock: state.record(metrics)?, then
\* the guard is dropped and the call returns
ThreadRecord(t) ==
    /\ thr_pc[t] = "locked"
    /\ mutex = t
    /\ LET r == CollectorState_record(coll, thr_arg[t][1])
       IN /\ coll' = r.c
          /\ record_errs' = IF r.ok THEN record_errs ELSE record_errs + 1
    /\ mutex' = 0
    /\ thr_calls' = [thr_calls EXCEPT ![t] = @ + 1]
    /\ thr_arg' = [thr_arg EXCEPT ![t] = None]
    /\ thr_pc' = [thr_pc EXCEPT ![t] = "idle"]
    /\ UNCHANGED << orchVars, provVars >>

\* the thread has made all its calls and is joined
ThreadExit(t) ==
    /\ thr_pc[t] = "idle"
    /\ thr_pc' = [thr_pc EXCEPT ![t] = "done"]
    /\ UNCHANGED << orchVars, provVars, coll, mutex, thr_calls, thr_arg, record_errs >>

NextCollector ==
    \/ \E t \in Threads : \E m \in MetricsInputs : ThreadLock(t, m)
    \/ \E t \in Threads : ThreadRecord(t)
    \/ \E t \in Threads : ThreadExit(t)

SpecCollector == InitCollector /\ [][NextCollector]_vars

\* MetricsCollector::clear by thread t: the lock is taken, the state is
\* cleared and the lock is released
ThreadClear(t) ==
    /\ thr_pc[t] = "idle"
    /\ mutex = 0
    /\ coll' = CollectorState_clear(coll)
    /\ UNCHANGED << orchVars, provVars, mutex, thr_pc, thr_calls, thr_arg, record_errs >>

\* a session in which the threads record and clear
NextSession ==
    \/ \E t \in Threads : \E m \in MetricsInputs : ThreadLock(t, m)
    \/ \E t \in Threads : ThreadRecord(t)
    \/ \E t \in Threads : ThreadExit(t)
    \/ \E t \in Threads : ThreadClear(t)

SpecSession == InitCollector /\ [][NextSession]_vars

\* ------------------------------------------------------------------------
\* ProviderError (src/crates/providers/src/error.rs)
\* ------------------------------------------------------------------------
\* a ProviderError value: the variant, the status code of an ApiError and
\* the retry_after of a RateLimitError
ProviderError(kind, status_code, retry_after) ==
    [kind |-> kind, status_code |-> status_code, retry_after |-> retry_after]

PlainKinds ==
    {"HttpError", "AuthenticationError", "TimeoutError", "StreamingError",
     "SseParseError", "JsonError", "ConfigError", "InvalidModel",
     "PayloadTooLarge", "ServiceUnavailable", "NetworkError", "TlsError",
     "ContentFilterError", "ContextLengthExceeded", "InternalError", "Other"}

\* the errors an operation is made to fail with: every variant, ApiError
\* with client and server status codes, RateLimitError with and without
\* a retry_after
ProviderErrors ==
    {ProviderError(k, 0, None) : k \in PlainKinds}
    \cup {ProviderError("ApiError", c, None) : c \in {400, 429, 499, 500, 503}}
    \cup {ProviderError("RateLimitError", 0, r) : r \in {None, Some(7)}}


\* is_retryable that retries a StreamingError as well
is_retryable_Streaming(e) ==
    CASE e.kind = "RateLimitError" -> TRUE
      [] e.kind = "TimeoutError" -> TRUE
      [] e.kind = "ServiceUnavailable" -> TRUE
      [] e.kind = "NetworkError" -> TRUE
      [] e.kind = "StreamingError" -> TRUE
      [] e.kind = "ApiError" -> e.status_code >= 500 \/ e.status_code = 429
      [] OTHER -> FALSE

\* ProviderError::is_retryable
is_retryable(e) ==
    CASE e.kind = "RateLimitError" -> TRUE
      [] e.kind = "TimeoutError" -> TRUE
      [] e.kind = "ServiceUnavailable" -> TRUE
      [] e.kind = "NetworkError" -> TRUE
      [] e.kind = "ApiError" -> e.status_code >= 500 \/ e.status_code = 429
      [] e.kind = "HttpError" -> FALSE
      [] OTHER -> FALSE


\* retry_delay that knows the retry_after of a RateLimitError only
retry_delay_RetryAfterOnly(e) ==
    CASE e.kind = "RateLimitError" -> e.retry_after
      [] OTHER -> None

\* ProviderError::retry_delay, in seconds
retry_delay(e) ==
    CASE e.kind = "RateLimitError" -> e.retry_after
      [] e.kind = "TimeoutError" -> Some(1)
      [] e.kind = "ServiceUnavailable" -> Some(5)
      [] e.kind = "NetworkError" -> Some(2)
      [] e.kind = "ApiError" /\ e.status_code >= 500 -> Some(3)
      [] OTHER -> None

\* 2_u64.pow(n)
RECURSIVE pow2(_)
pow2(n) == IF n = 0 THEN 1 ELSE 2 * pow2(n - 1)

\* ------------------------------------------------------------------------
\* execute_with_retries (OpenAIProvider and AnthropicProvider: the same
\* code)
\* ------------------------------------------------------------------------
Ok(v) == [ok |-> TRUE, value |-> v, error |-> None]

Err(e) == [ok |-> FALSE, value |-> 0, error |-> Some(e)]

\* what one call of operation() can return
OperationOutcomes == {Ok(0)} \cup {Err(e) : e \in ProviderErrors}

InitRetry ==
    /\ cfg = [concurrency |-> 1, total_requests |-> 1, rate_limit |-> 0,
              provider |-> "openai"]
    /\ OrchestratorIdle
    /\ coll = CollectorState_new(DefaultCollectorConfig)
    /\ ThreadsAbsent
    /\ max_retries \in 0..MaxRetries
    /\ attempts = 0
    /\ last_error = None
    /\ outcomes = << >>
    /\ waits = << >>
    /\ rt_pc = "loop"
    /\ rt_result = None
    /\ cp_pc = "done"
    /\ sends = 0
    /\ token_events = 0
    /\ cp_result = None
    /\ StreamIdle


\* RetryCall that treats every error as retryable
RetryCall_RetryAll(o) ==
    /\ rt_pc = "loop"
    /\ attempts < max_retries
    /\ outcomes' = Append(outcomes, o)
    /\ IF o.ok
       THEN /\ rt_result' = Some(o)
            /\ rt_pc' = "done"
            /\ UNCHANGED << attempts, last_error, waits >>
       ELSE LET e == o.error[1]
            IN /\ last_error' = Some(e)
               /\ attempts' = attempts + 1
               /\ UNCHANGED rt_result
               /\ IF attempts + 1 < max_retries
                  THEN /\ waits' = Append(waits, unwrap_or(retry_delay(e), pow2((attempts + 1) - 1)))
                       /\ rt_pc' = "sleep"
                  ELSE /\ UNCHANGED waits
                       /\ rt_pc' = "loop"
    /\ UNCHANGED << orchVars, coll, thrVars, max_retries, completeVars, streamVars >>

\* one iteration of the while loop up to its await of sleep: operation()
\* is called and returns o; Ok and a non-retryable error are returned at
\* once; otherwise attempts is incremented and, if another iteration is
\* due, the delay is computed and the sleep begins
RetryCall(o) ==
    /\ rt_pc = "loop"
    /\ attempts < max_retries
    /\ outcomes' = Append(outcomes, o)
    /\ IF o.ok
       THEN /\ rt_result' = Some(o)
            /\ rt_pc' = "done"
            /\ UNCHANGED << attempts, last_error, waits >>
       ELSE LET e == o.error[1]
            IN IF ~is_retryable(e)
               THEN /\ rt_result' = Some(Err(e))
                    /\ rt_pc' = "done"
                    /\ UNCHANGED << attempts, last_error, waits >>
               ELSE /\ last_error' = Some(e)
                    /\ attempts' = attempts + 1
                    /\ UNCHANGED rt_result
                    /\ IF attempts + 1 < max_retries
                       THEN /\ waits' = Append(waits,
                                   unwrap_or(retry_delay(e), pow2((attempts + 1) - 1)))
                            /\ rt_pc' = "sleep"
                       ELSE /\ UNCHANGED waits
                            /\ rt_pc' = "loop"
    /\ UNCHANGED << orchVars, coll, thrVars, max_retries, completeVars, streamVars >>

\* tokio::time::sleep(delay) is over: back to the loop condition
RetryWake ==
    /\ rt_pc = "sleep"
    /\ rt_pc' = "loop"
    /\ UNCHANGED << orchVars, coll, thrVars, max_retries, attempts,
                    last_error, outcomes, waits, rt_result, completeVars, streamVars >>

\* the loop condition attempts < max_retries is false: the last error is
\* returned, or "Max retries exceeded" if there is none
RetryExhausted ==
    /\ rt_pc = "loop"
    /\ attempts >= max_retries
    /\ rt_result' = Some(Err(unwrap_or(last_error, ProviderError("Other", 0, None))))
    /\ rt_pc' = "done"
    /\ UNCHANGED << orchVars, coll, thrVars, max_retries, attempts,
                    last_error, outcomes, waits, completeVars, streamVars >>

NextRetry ==
    \/ \E o \in OperationOutcomes : RetryCall(o)
    \/ RetryWake
    \/ RetryExhausted

SpecRetry == InitRetry /\ [][NextRetry]_vars

\* ------------------------------------------------------------------------
\* Provider::complete (src/crates/providers/src/traits.rs)
\* ------------------------------------------------------------------------
\* what token_stream.next().await can yield
StreamItems ==
    {[kind |-> "token", error |-> None], [kind |-> "end", error |-> None]}
    \cup {[kind |-> "error", error |-> Some(e)] : e \in ProviderErrors}

InitComplete ==
    /\ cfg = [concurrency |-> 1, total_requests |-> 1, rate_limit |-> 0,
              provider |-> "openai"]
    /\ OrchestratorIdle
    /\ coll = CollectorState_new(DefaultCollectorConfig)
    /\ ThreadsAbsent
    /\ max_retries = 0
    /\ attempts = 0
    /\ last_error = None
    /\ outcomes = << >>
    /\ waits = << >>
    /\ rt_pc = "done"
    /\ rt_result = None
    /\ cp_pc = "start"
    /\ sends = 0
    /\ token_events = 0
    /\ cp_result = None
    /\ StreamIdle

\* self.stream(request, timing_engine).await?: the provider builds the
\* request and the event source that issues it and returns the response
\* (o is Ok), or fails before anything is issued and complete returns the
\* error
CompleteStream(o) ==
    /\ cp_pc = "start"
    /\ IF o.ok
       THEN /\ sends' = sends + 1
            /\ cp_pc' = "streaming"
            /\ UNCHANGED cp_result
       ELSE /\ cp_result' = Some(o)
            /\ cp_pc' = "done"
            /\ UNCHANGED sends
    /\ UNCHANGED << orchVars, coll, thrVars, retryVars, streamVars, token_events >>


\* CompleteNext that opens the stream again after a retryable error
CompleteNext_Resend(item) ==
    /\ cp_pc = "streaming"
    /\ IF item.kind = "token"
       THEN /\ token_events < MaxTokens
            /\ token_events' = token_events + 1
            /\ UNCHANGED << cp_pc, cp_result, sends >>
       ELSE IF item.kind = "end"
       THEN /\ cp_result' = Some(Ok(token_events))
            /\ cp_pc' = "done"
            /\ UNCHANGED << token_events, sends >>
       ELSE IF is_retryable(item.error[1]) /\ sends < 2
       THEN /\ sends' = sends + 1
            /\ token_events' = 0
            /\ UNCHANGED << cp_pc, cp_result >>
       ELSE /\ cp_result' = Some(Err(item.error[1]))
            /\ cp_pc' = "done"
            /\ UNCHANGED << token_events, sends >>
    /\ UNCHANGED << orchVars, coll, thrVars, retryVars, streamVars >>

\* one iteration of the while let loop: the stream yields a token event,
\* which is collected, or ends, and complete returns the CompletionResult,
\* or yields an error, which `event_result?` returns from complete
CompleteNext(item) ==
    /\ cp_pc = "streaming"
    /\ IF item.kind = "token"
       THEN /\ token_events < MaxTokens
            /\ token_events' = token_events + 1
            /\ UNCHANGED << cp_pc, cp_result, sends >>
       ELSE IF item.kind = "end"
       THEN /\ cp_result' = Some(Ok(token_events))
            /\ cp_pc' = "done"
            /\ UNCHANGED << token_events, sends >>
       ELSE /\ cp_result' = Some(Err(item.error[1]))
            /\ cp_pc' = "done"
            /\ UNCHANGED << token_events, sends >>
    /\ UNCHANGED << orchVars, coll, thrVars, retryVars, streamVars >>

NextComplete ==
    \/ \E o \in OperationOutcomes : CompleteStream(o)
    \/ \E item \in StreamItems : CompleteNext(item)

SpecComplete == InitComplete /\ [][NextComplete]_vars

\* ------------------------------------------------------------------------
\* Token stream of OpenAIProvider::stream and AnthropicProvider::stream:
\* event_source.map(closure).filter_map(|x| x)
\* ------------------------------------------------------------------------
\* What the event source delivers to the closure: the Open event, a
\* message with text content, a message without content (role, metadata,
\* unknown event type), a message whose data is not valid JSON, the
\* terminator (`[DONE]`, `message_stop`), an `error` event of the API, a
\* transport error (Err), or the end of the event source (None).
EventSourceEvents ==
    {"Open", "Content", "Empty", "BadJson", "Terminator", "ErrorEvent",
     "TransportErr", "End"}

\* Timestamp::duration_since on quanta instants: zero if `earlier` is later
duration_since(later, earlier) == IF later >= earlier THEN later - earlier ELSE 0

\* a TokenEvent yielded by the stream
TokenItem(seq, now) ==
    [kind |-> "token",
     sequence |-> seq,
     time_since_start |-> duration_since(now, request_start),
     inter_token_latency |->
         IF last_token_time = None THEN None
         ELSE Some(duration_since(now, last_token_time[1])),
     error |-> None]

\* an error item yielded by the stream
ErrorItem(e) ==
    [kind |-> "error", sequence |-> 0, time_since_start |-> 0,
     inter_token_latency |-> None, error |-> Some(e)]

InitStream ==
    /\ cfg = [concurrency |-> 1, total_requests |-> 1, rate_limit |-> 0,
              provider |-> "openai"]
    /\ OrchestratorIdle
    /\ coll = CollectorState_new(DefaultCollectorConfig)
    /\ ThreadsAbsent
    /\ max_retries = 0
    /\ attempts = 0
    /\ last_error = None
    /\ outcomes = << >>
    /\ waits = << >>
    /\ rt_pc = "done"
    /\ rt_result = None
    /\ cp_pc = "done"
    /\ sends = 0
    /\ token_events = 0
    /\ cp_result = None
    /\ stream_pc = "open"
    /\ received = << >>
    /\ items = << >>
    /\ sequence = 0
    /\ last_token_time = None
    /\ request_start \in 0..1
    /\ clock = request_start


\* StreamPoll that numbers every message, not only the emitted tokens
StreamPoll_CountMessages(ev) ==
    /\ stream_pc = "open"
    /\ Len(received) < MaxEvents
    /\ received' = Append(received, ev)
    /\ IF ev = "Content"
       THEN /\ items' = Append(items, TokenItem(sequence, clock))
            /\ last_token_time' = Some(clock)
            /\ sequence' = sequence + 1
            /\ UNCHANGED stream_pc
       ELSE IF ev = "Empty"
       THEN /\ sequence' = sequence + 1
            /\ UNCHANGED << items, last_token_time, stream_pc >>
       ELSE IF ev = "BadJson"
       THEN /\ items' = Append(items, ErrorItem(ProviderError("SseParseError", 0, None)))
            /\ UNCHANGED << sequence, last_token_time, stream_pc >>
       ELSE IF ev \in {"ErrorEvent", "TransportErr"}
       THEN /\ items' = Append(items, ErrorItem(ProviderError("StreamingError", 0, None)))
            /\ UNCHANGED << sequence, last_token_time, stream_pc >>
       ELSE IF ev = "End"
       THEN /\ stream_pc' = "ended"
            /\ UNCHANGED << items, sequence, last_token_time >>
       ELSE UNCHANGED << items, sequence, last_token_time, stream_pc >>
    /\ UNCHANGED << orchVars, coll, thrVars, retryVars, completeVars,
                    clock, request_start >>

\* StreamPoll that measures the inter-token latency from the request start
StreamPoll_LatencyFromStart(ev) ==
    /\ stream_pc = "open"
    /\ Len(received) < MaxEvents
    /\ received' = Append(received, ev)
    /\ IF ev = "Content"
       THEN /\ items' = Append(items,
                   [TokenItem(sequence, clock) EXCEPT !.inter_token_latency =
                        IF last_token_time = None THEN None
                        ELSE Some(duration_since(clock, request_start))])
            /\ last_token_time' = Some(clock)
            /\ sequence' = sequence + 1
            /\ UNCHANGED stream_pc
       ELSE IF ev = "BadJson"
       THEN /\ items' = Append(items, ErrorItem(ProviderError("SseParseError", 0, None)))
            /\ UNCHANGED << sequence, last_token_time, stream_pc >>
       ELSE IF ev \in {"ErrorEvent", "TransportErr"}
       THEN /\ items' = Append(items, ErrorItem(ProviderError("StreamingError", 0, None)))
            /\ UNCHANGED << sequence, last_token_time, stream_pc >>
       ELSE IF ev = "End"
       THEN /\ stream_pc' = "ended"
            /\ UNCHANGED << items, sequence, last_token_time >>
       ELSE UNCHANGED << items, sequence, last_token_time, stream_pc >>
    /\ UNCHANGED << orchVars, coll, thrVars, retryVars, completeVars,
                    clock, request_start >>

\* one poll of the token stream that finds an event in the event source.
\* The closure maps a message with content to a TokenEvent (clock.now(),
\* the sequence number, then sequence += 1), a parse failure, an `error`
\* event and a transport error to an error item, and everything else,
\* the terminator included, to None, which filter_map drops.  The closure
\* keeps no record of a terminator or an error and does not close the
\* event source: the stream ends when the event source ends, and until
\* then it passes on whatever the event source delivers.
StreamPoll(ev) ==
    /\ stream_pc = "open"
    /\ Len(received) < MaxEvents
    /\ received' = Append(received, ev)
    /\ IF ev = "Content"
       THEN /\ items' = Append(items, TokenItem(sequence, clock))
            /\ last_token_time' = Some(clock)
            /\ sequence' = sequence + 1
            /\ UNCHANGED stream_pc
       ELSE IF ev = "BadJson"
       THEN /\ items' = Append(items, ErrorItem(ProviderError("SseParseError", 0, None)))
            /\ UNCHANGED << sequence, last_token_time, stream_pc >>
       ELSE IF ev \in {"ErrorEvent", "TransportErr"}
       THEN /\ items' = Append(items, ErrorItem(ProviderError("StreamingError", 0, None)))
            /\ UNCHANGED << sequence, last_token_time, stream_pc >>
       ELSE IF ev = "End"
       THEN /\ stream_pc' = "ended"
            /\ UNCHANGED << items, sequence, last_token_time >>
       ELSE UNCHANGED << items, sequence, last_token_time, stream_pc >>
    /\ UNCHANGED << orchVars, coll, thrVars, retryVars, completeVars,
                    clock, request_start >>

\* time passes between two events
ClockAdvance ==
    /\ stream_pc = "open"
    /\ clock < request_start + MaxClock
    /\ clock' = clock + 1
    /\ UNCHANGED << orchVars, coll, thrVars, retryVars, completeVars,
                    stream_pc, received, items, sequence, last_token_time,
                    request_start >>

NextStream ==
    \/ \E ev \in EventSourceEvents : StreamPoll(ev)
    \/ ClockAdvance

SpecStream == InitStream /\ [][NextStream]_vars

\* ------------------------------------------------------------------------
\* Properties of the orchestrator
\* ------------------------------------------------------------------------
Requests == 1..cfg.total_requests

\* execute has returned to run
Returned == pc \in {"aggregate", "run_ok", "run_err"}

InStream == {i \in Tasks : st[i] = "stream"}

WithOutcome(kinds) == {i \in Requests : res[i] \in kinds}

\* C1: at every moment of a run the number of requests inside their stream
\* operation (permit acquired, provider call not yet ended) is at most
\* `concurrency`.
C1_BoundedConcurrency == Cardinality(InStream) <= cfg.concurrency

\* the semaphore is full and a further request is kept waiting for a permit
C1_Witness ==
    /\ Cardinality(InStream) = cfg.concurrency
    /\ \E j \in Tasks : st[j] = "queued"

\* C2: once the cancellation signal has fired, no request that has not yet
\* started its stream operation ever starts it, wherever the task was when
\* the signal fired.
C2_NoStartAfterSignal ==
    [][\A i \in Tasks : (signalled /\ st[i] # "stream") => st'[i] # "stream"]_vars

\* C3: every request that ends in failure has a RequestMetrics with
\* success=false and a non-empty error in the collector.
C3_FailuresRecorded ==
    \A i \in Tasks :
        (st[i] \in {"finished", "joined"} /\ res[i] = "err")
        => \E k \in 1..Len(coll.request_metrics) :
               /\ coll.request_metrics[k].request_id = i
               /\ ~coll.request_metrics[k].success
               /\ coll.request_metrics[k].error # None

\* C4: a request whose stream was in flight when the cancellation signal
\* fired is abandoned only once shutdown_timeout has passed since the
\* signal.
C4_DrainBeforeAbandon ==
    [][\A i \in inflight_at_signal :
           res'[i] = "cancelled" => since_signal >= shutdown_timeout]_vars

\* C5: a benchmark run in which the cancellation signal arrived during
\* execute and cancelled a request still ends with an ExecutionSummary and
\* an AggregatedMetrics, not with an error.
C5_PartialResults ==
    (signalled /\ WithOutcome({"cancelled"}) # {}) => pc # "run_err"

\* C6: if the cancellation signal fires during execute, the summary that
\* execute returns has total_requests equal to the configured value and
\* successful_requests + failed_requests <= total_requests.
C6_CancelledSummary ==
    (Returned /\ signalled)
    => /\ summary.total_requests = cfg.total_requests
       /\ summary.successful_requests + summary.failed_requests
              <= summary.total_requests

\* execute has returned from a run in which the signal cancelled a request
\* while another one completed
C6_Witness ==
    /\ Returned
    /\ signalled
    /\ WithOutcome({"cancelled"}) # {}
    /\ summary.successful_requests >= 1

\* C7: with rate_limit > 0 a request has passed the rate limiter before it
\* asks for, waits for or holds a concurrency permit.
C7_TokenBeforePermit ==
    cfg.rate_limit > 0
    => \A i \in Tasks :
           st[i] \in {"acquire", "queued", "granted", "stream", "record"}
           => rate_permit[i]

\* one request streams with both permits while another still waits for the
\* rate limiter, holding no concurrency permit
C7_Witness ==
    /\ cfg.rate_limit > 0
    /\ tokens = 0
    /\ \E i, j \in Tasks : st[i] = "stream" /\ rate_permit[i] /\ st[j] = "rate"
    /\ permits = cfg.concurrency - 1

\* C8: when a request task panics, the summary execute returns counts it as
\* exactly one failed request: failed_requests is the number of requests
\* that did not succeed, successful_requests the number that did, and every
\* request has been run to an outcome.
C8_PanicCounted ==
    (Returned /\ WithOutcome({"panic"}) # {})
    => /\ summary.failed_requests
              = Cardinality(WithOutcome({"panic", "err", "cancelled"}))
       /\ summary.successful_requests = Cardinality(WithOutcome({"ok"}))
       /\ \A i \in Requests : st[i] = "joined" /\ res[i] # "none"

\* execute has returned from a run in which one request panicked and
\* another succeeded
C8_Witness ==
    /\ Returned
    /\ Cardinality(WithOutcome({"panic"})) = 1
    /\ Cardinality(WithOutcome({"ok"})) = 1
    /\ summary.failed_requests = 1

\* C9: without cancellation, failing requests neither make execute fail nor
\* keep other requests from running: every request reaches its own outcome
\* and successful_requests + failed_requests = total_requests.
C9_AllCounted ==
    (Returned /\ ~signalled)
    => /\ summary.successful_requests + summary.failed_requests
              = cfg.total_requests
       /\ \A i \in Requests : st[i] = "joined" /\ res[i] \in {"ok", "err", "panic"}

\* execute has returned from an uncancelled run in which one request
\* failed and another succeeded
C9_Witness ==
    /\ Returned
    /\ ~signalled
    /\ WithOutcome({"err"}) # {}
    /\ WithOutcome({"ok"}) # {}

\* ------------------------------------------------------------------------
\* Properties of the collector under concurrent recording
\* ------------------------------------------------------------------------
AllReturned == \A t \in Threads : thr_pc[t] = "done"

\* C10 as stated: after all record calls of all threads have returned,
\* len() equals the number of record calls and aggregate reports that
\* number as total_requests.
C10_NoRecordLost ==
    (AllReturned /\ TotalCalls >= 1)
    => /\ CollectorState_len(coll) = TotalCalls
       /\ MetricsAggregator_aggregate(coll).ok
       /\ MetricsAggregator_aggregate(coll).total_requests = TotalCalls

\* C10 amended: after all record calls of all threads have returned, len()
\* equals the number of record calls that returned Ok, and aggregate, when
\* the collector is not empty, reports that number as total_requests.
C10_NoAcceptedRecordLost ==
    AllReturned
    => /\ CollectorState_len(coll) = TotalCalls - record_errs
       /\ CollectorState_len(coll) >= 1
          => /\ MetricsAggregator_aggregate(coll).ok
             /\ MetricsAggregator_aggregate(coll).total_requests
                    = TotalCalls - record_errs

\* two threads have made three record calls between them, one call was
\* rejected by a histogram and one recorded a failed request
C10_Witness ==
    /\ AllReturned
    /\ thr_calls[1] >= 1
    /\ thr_calls[2] >= 1
    /\ TotalCalls = 3
    /\ record_errs = 1
    /\ coll.failed_requests >= 1
    /\ CollectorState_len(coll) = TotalCalls - 1

\* ------------------------------------------------------------------------
\* Properties of the collector and the aggregator in a session
\* ------------------------------------------------------------------------
\* sum of the counts of a breakdown
RECURSIVE SumMap(_)
SumMap(f) ==
    IF DOMAIN f = {} THEN 0
    ELSE LET k == CHOOSE x \in DOMAIN f : TRUE
         IN f[k] + SumMap([x \in DOMAIN f \ {k} |-> f[x]])

\* thread t returns from a record call in this step
RecordReturns(t) == thr_pc[t] = "locked" /\ thr_pc'[t] = "idle"

\* s is a prefix of r
IsPrefix(s, r) == Len(s) <= Len(r) /\ \A k \in 1..Len(s) : s[k] = r[k]

Providers == {m.provider : m \in MetricsInputs}

Models == {m.model : m \in MetricsInputs}

\* C11: every AggregatedMetrics that aggregate returns has
\* successful_requests + failed_requests = total_requests.
C11_CountsAddUp ==
    LET a == MetricsAggregator_aggregate(coll)
    IN (mutex = 0 /\ a.ok)
       => a.successful_requests + a.failed_requests = a.total_requests

\* C12: in every AggregatedMetrics returned by aggregate,
\* aggregate_by_provider or aggregate_by_model the counts of
\* provider_breakdown sum to total_requests and so do the counts of
\* model_breakdown.
C12_BreakdownsAddUp ==
    mutex = 0
    => \A a \in {MetricsAggregator_aggregate(coll)}
                \cup {aggregate_by_provider(coll, p) : p \in Providers}
                \cup {aggregate_by_model(coll, md) : md \in Models} :
           a.ok => /\ SumMap(a.provider_breakdown) = a.total_requests
                   /\ SumMap(a.model_breakdown) = a.total_requests

\* C13 as stated: every record call appends its argument to the raw
\* vector, and no step other than clear() shortens or reorders the vector.
C13_AlwaysAppended ==
    [][/\ \A t \in Threads :
              RecordReturns(t)
              => coll'.request_metrics
                     = Append(coll.request_metrics, thr_arg[t][1])
       /\ \/ IsPrefix(coll.request_metrics, coll'.request_metrics)
          \/ coll' = CollectorState_clear(coll)]_vars

\* C13 amended: a record call that returns Ok appends its argument to the
\* raw vector, whether it is a successful or a failed request; a record
\* call that returns Err leaves the vector as it was; no step other than
\* clear() shortens or reorders the vector.
C13_AcceptedAppended ==
    [][/\ \A t \in Threads :
              RecordReturns(t)
              => coll'.request_metrics
                     = IF record_errs' = record_errs
                       THEN Append(coll.request_metrics, thr_arg[t][1])
                       ELSE coll.request_metrics
       /\ \/ IsPrefix(coll.request_metrics, coll'.request_metrics)
          \/ coll' = CollectorState_clear(coll)]_vars

\* the vector holds a successful and then a failed request, and a third
\* record call was rejected
C13_Witness ==
    /\ Len(coll.request_metrics) = 2
    /\ coll.request_metrics[1].success
    /\ ~coll.request_metrics[2].success
    /\ record_errs = 1

\* C14: recording a RequestMetrics with success=false adds one to
\* failed_requests and appends the raw record, and changes nothing else in
\* the collector state.
C14_FailedRecordFrame ==
    [][\A t \in Threads :
           (RecordReturns(t) /\ ~thr_arg[t][1].success)
           => coll' = [coll EXCEPT
                         !.failed_requests = @ + 1,
                         !.request_metrics = Append(@, thr_arg[t][1])]]_vars

\* a failed request was recorded into a collector that already held the
\* histograms, counters and totals of a successful one
C14_Witness ==
    /\ Len(coll.request_metrics) >= 2
    /\ ~coll.request_metrics[Len(coll.request_metrics)].success
    /\ coll.failed_requests = 1
    /\ coll.successful_requests >= 1
    /\ coll.global_histograms.ttft # EmptyBag
    /\ coll.total_output_tokens > 0
    /\ record_errs = 0

\* the raw vector, the counters and the global histograms of snapshot s
\* describe the same records
SnapshotReflectsVector(s) ==
    /\ s.successful_requests = CountSuccess(s.request_metrics, TRUE)
    /\ s.failed_requests = CountSuccess(s.request_metrics, FALSE)
    /\ BagCardinality(s.global_histograms.ttft)
           = CountSuccess(s.request_metrics, TRUE)
    /\ BagCardinality(s.global_histograms.total_latency)
           = CountSuccess(s.request_metrics, TRUE)

\* C15: every snapshot taken while threads record (the lock is free at
\* that moment) has a raw vector, counters and histograms that reflect
\* the same set of records, never a partially applied record.
C15_SnapshotWholeRecords ==
    mutex = 0 => SnapshotReflectsVector(get_state_snapshot(coll))

\* ------------------------------------------------------------------------
\* Properties of the retry loop and of the error taxonomy
\* ------------------------------------------------------------------------
\* the n-th call of operation() failed with error e
FailedWith(n) == outcomes[n].error[1]

\* every call of operation() so far failed with a retryable error
AllRetryableFailures ==
    \A n \in 1..Len(outcomes) :
        ~outcomes[n].ok /\ is_retryable(FailedWith(n))

\* C16: when the operation keeps failing with retryable errors it is
\* called max_retries times after the initial call: the error is surfaced
\* only after 1 + max_retries calls.
C16_RetriesUpToMax ==
    (rt_pc = "done" /\ AllRetryableFailures)
    => Len(outcomes) = 1 + max_retries

\* C17 as stated: the wait before the n-th retry is the retry_after of the
\* failed response when it carried one and 2^(n-1) seconds otherwise.
C17_BackoffAsStated ==
    \A n \in 1..Len(waits) :
        waits[n] = IF FailedWith(n).retry_after # None
                   THEN FailedWith(n).retry_after[1]
                   ELSE pow2(n - 1)

\* C17 amended: the wait before the n-th retry is the retry_after of a
\* RateLimitError that carries one, the fixed delay of the error kind for
\* TimeoutError (1 s), ServiceUnavailable (5 s), NetworkError (2 s) and
\* ApiError with status >= 500 (3 s), and 2^(n-1) seconds otherwise.
C17_BackoffPerKind ==
    \A n \in 1..Len(waits) :
        LET e == FailedWith(n)
        IN waits[n] =
               CASE e.kind = "RateLimitError" /\ e.retry_after # None
                        -> e.retry_after[1]
                 [] e.kind = "TimeoutError" -> 1
                 [] e.kind = "ServiceUnavailable" -> 5
                 [] e.kind = "NetworkError" -> 2
                 [] e.kind = "ApiError" /\ e.status_code >= 500 -> 3
                 [] OTHER -> pow2(n - 1)

\* the first wait was the fixed delay of a ServiceUnavailable and the
\* second wait the exponential backoff after a RateLimitError without
\* retry_after
C17_Witness ==
    /\ Len(waits) = 2
    /\ FailedWith(1).kind = "ServiceUnavailable"
    /\ waits[1] = 5
    /\ FailedWith(2) = ProviderError("RateLimitError", 0, None)
    /\ waits[2] = 2

\* C18: when a call of the operation fails with a non-retryable error,
\* execute_with_retries returns that error in the same step, without a
\* wait, and the operation is not called again.
C18_NonRetryableShortCircuits ==
    [][/\ (Len(outcomes') = Len(outcomes) + 1
           /\ ~outcomes'[Len(outcomes')].ok
           /\ ~is_retryable(outcomes'[Len(outcomes')].error[1]))
          => /\ rt_pc' = "done"
             /\ rt_result' = Some(outcomes'[Len(outcomes')])
             /\ waits' = waits
       /\ rt_pc = "done" => outcomes' = outcomes]_vars

\* a non-retryable error ended the loop after one retry, with retries
\* still left
C18_Witness ==
    /\ rt_pc = "done"
    /\ Len(outcomes) = 2
    /\ max_retries > 2
    /\ ~outcomes[2].ok
    /\ FailedWith(2).kind = "AuthenticationError"
    /\ rt_result = Some(outcomes[2])
    /\ Len(waits) = 1

C20_NoResendAfterOpen ==
    [][cp_pc = "streaming"
       => /\ sends' = sends
          /\ cp_result' # None
             => /\ cp_pc' = "done"
                /\ sends' = 1]_vars

\* complete has failed with a retryable error that arrived after two
\* token events, having issued the request once
C20_Witness ==
    /\ cp_pc = "done"
    /\ sends = 1
    /\ token_events = 2
    /\ cp_result # None
    /\ ~cp_result[1].ok
    /\ is_retryable(cp_result[1].error[1])

\* ------------------------------------------------------------------------
\* Properties of the token stream
\* ------------------------------------------------------------------------
\* the TokenEvents among the items yielded so far, in order
TokenEvents == SelectSeq(items, LAMBDA it : it.kind = "token")

\* the event source has delivered event ev
Received(ev) == \E n \in 1..Len(received) : received[n] = ev

\* C21: the k-th TokenEvent of a stream (k = 0, 1, 2, ...) carries
\* sequence = k, whatever non-token events, empty chunks and error items
\* lie between the tokens.
C21_SequenceIsIndex ==
    \A k \in 1..Len(TokenEvents) : TokenEvents[k].sequence = k - 1

\* two tokens were emitted with an empty chunk and an error item between
\* them
C21_Witness ==
    /\ Len(TokenEvents) = 2
    /\ received = << "Content", "Empty", "TransportErr", "Content" >>
    /\ Len(items) = 3

\* C22: inter_token_latency is absent exactly on the TokenEvent with
\* sequence 0, and on the TokenEvent with sequence n >= 1 it is
\* time_since_start[n] - time_since_start[n-1].
C22_LatencyIsDifference ==
    \A k \in 1..Len(TokenEvents) :
        /\ TokenEvents[k].inter_token_latency = None
               <=> TokenEvents[k].sequence = 0
        /\ k >= 2
           => TokenEvents[k].inter_token_latency
                  = Some(TokenEvents[k].time_since_start
                             - TokenEvents[k - 1].time_since_start)

\* the second token arrived one second after the first, which itself
\* arrived one second after the request started
C22_Witness ==
    /\ Len(TokenEvents) = 2
    /\ TokenEvents[1].time_since_start = 1
    /\ TokenEvents[2].time_since_start = 2
    /\ TokenEvents[2].inter_token_latency = Some(1)

\* C23: after the terminator has been received the token stream yields no
\* further item.
C23_EndsAtTerminator ==
    [][Received("Terminator") => items' = items]_vars

\* C24: after a transport error the token stream yields nothing more: the
\* error item is the last item of the stream.
C24_ErrorIsTerminal ==
    [][Received("TransportErr") => items' = items]_vars

\* ------------------------------------------------------------------------
\* Properties of clear, of filtered aggregation and of a failing record
\* ------------------------------------------------------------------------
\* a clear() call changes the collector in this step
ClearActs ==
    /\ thr_pc' = thr_pc
    /\ coll' # coll

\* C25: after clear() the collector state is that of a newly created
\* collector with the same configuration: empty vector, zero counters and
\* accumulators, empty histograms and empty count maps.
C25_ClearIsNew ==
    [][ClearActs => coll' = CollectorState_new(coll.config)]_vars

\* the collector is as new although two record calls were made, one of
\* which was rejected after it had changed the state
C25_Witness ==
    /\ coll = CollectorState_new(coll.config)
    /\ TotalCalls >= 2
    /\ record_errs = 1
    /\ mutex = 0

\* the collector into which the records of the slice were recorded, one
\* after the other, starting from a new collector
RECURSIVE RecordedInto(_, _)
RecordedInto(metrics, config) ==
    IF metrics = << >> THEN CollectorState_new(config)
    ELSE CollectorState_record(
             RecordedInto(SubSeq(metrics, 1, Len(metrics) - 1), config),
             metrics[Len(metrics)]).c

\* the counts, breakdowns and histograms of two roll-ups are the same
SameStatistics(a, b) ==
    /\ a.ok = b.ok
    /\ a.ok => /\ a.total_requests = b.total_requests
               /\ a.successful_requests = b.successful_requests
               /\ a.failed_requests = b.failed_requests
               /\ a.provider_breakdown = b.provider_breakdown
               /\ a.model_breakdown = b.model_breakdown
               /\ a.global_histograms = b.global_histograms

\* C26: aggregate_by_provider(collector, p) and aggregate_by_model(
\* collector, m) return the same counts, breakdowns and distributions as
\* aggregate on a collector into which exactly the records of that
\* provider (or model) were recorded.
C26_FilteredEqualsAggregate ==
    mutex = 0
    => /\ \A p \in Providers :
              SameStatistics(
                  aggregate_by_provider(coll, p),
                  MetricsAggregator_aggregate(
                      RecordedInto(Filter(coll.request_metrics, "provider", p),
                                   coll.config)))
       /\ \A md \in Models :
              SameStatistics(
                  aggregate_by_model(coll, md),
                  MetricsAggregator_aggregate(
                      RecordedInto(Filter(coll.request_metrics, "model", md),
                                   coll.config)))

\* C29: a record call that returns an error leaves the collector state
\* exactly as it was before the call.
C29_ErrorLeavesState ==
    [][\A t \in Threads :
           (RecordReturns(t) /\ record_errs' # record_errs) => coll' = coll]_vars

\* ------------------------------------------------------------------------
\* Properties relating the orchestrator's results to the collector
\* ------------------------------------------------------------------------
\* C27: after execute returns on a collector that was empty at the start,
\* the number of success=true records in the collector equals
\* summary.successful_requests.
C27_SuccessesRecorded ==
    Returned => CountSuccess(coll.request_metrics, TRUE) = summary.successful_requests

\* C30: every RequestMetrics produced by the orchestrator carries the
\* provider identity of the adapter that executed the request.
C30_ProviderIsAdapter ==
    \A k \in 1..Len(coll.request_metrics) :
        coll.request_metrics[k].provider = cfg.provider

\* C28: for concurrency >= 1 and any total_requests, if every provider
\* call eventually returns then execute eventually returns.
C28_ExecuteReturns == <>Returned

\* execute has returned from a run with more requests than permits in
\* which one request failed and another was cancelled
C28_Witness ==
    /\ Returned
    /\ cfg.total_requests > cfg.concurrency
    /\ WithOutcome({"err", "panic"}) # {}
    /\ WithOutcome({"cancelled"}) # {}

====
